---- MODULE Spec2Model ----
(***************************************************************************)
(* BrowserView (ranger/gui/widgets/browserview.py): the widget that owns   *)
(* the browser columns and the embedded pager, builds and tears down the  *)
(* panel set of a perspective (miller, dual, long) and lays the panels    *)
(* out on a resize.                                                        *)
(*                                                                         *)
(* Every handler of the class is one action.  A handler that calls other  *)
(* methods (destroy_perspective, create_perspective, resize) is modelled  *)
(* by threading a record of the view's fields through one operator per    *)
(* method, so the whole call chain is one step.                            *)
(***************************************************************************)
EXTENDS Integers, Sequences, FiniteSets

VARIABLES
    perspective,       \* settings.perspective
    column_ratios,     \* settings.column_ratios
    draw_borders,      \* settings.draw_borders
    collapse_preview,  \* settings.collapse_preview
    preview,           \* self.preview
    ratios,            \* self.ratios
    stretch_ratios,    \* self.stretch_ratios
    is_collapsed,      \* self.is_collapsed
    columns,           \* self.columns, a sequence of object ids
    main_column,       \* self.main_column, an object id or None
    pager,             \* self.pager, an object id or None
    children,          \* the container's registered children (add_child / remove_child)
    heap,              \* the panel objects, by id
    hei, wid,          \* self.hei, self.wid: the viewport
    need_clear,        \* self.need_clear
    draw_bookmarks,    \* self.draw_bookmarks
    bookmarks,         \* self.fm.bookmarks, a set of (key, path) items
    show_hidden_bookmarks,  \* settings.show_hidden_bookmarks
    drawn,             \* what the last operation put on the surface, if it was a draw
    raised,            \* the exception the last operation let escape, "none" if it returned
    built,             \* history: the constructor that built the current panel set
    snap,              \* history: panel visibility and pager flags before the last open_pager
    lastOp             \* history: the last operation, the layout algorithm it ran and
                       \* whether it destroyed or constructed panel objects

vars == <<perspective, column_ratios, draw_borders, collapse_preview, preview,
          ratios, stretch_ratios, is_collapsed, columns, main_column, pager,
          children, heap, hei, wid, need_clear, draw_bookmarks, bookmarks,
          show_hidden_bookmarks, drawn, raised, built, snap, lastOp>>

settingsVars == <<perspective, column_ratios, draw_borders, collapse_preview,
                  show_hidden_bookmarks>>

\* what only the environment of the view changes
envVars == <<preview, draw_bookmarks, bookmarks>>

-----------------------------------------------------------------------------
(* Bounds of the model *)

MaxLen == 2          \* longest configured column_ratios sequence
MaxObjects == 4      \* panel objects that can be referenced at once
MaxWid == 8          \* the non-degenerate viewport width of the lifecycle model
MaxHei == 3          \* the non-degenerate viewport height of the lifecycle model
LayoutMaxLen == 3    \* longest ratio sequence of the layout model
LayoutMaxWid == 40   \* widths 0..LayoutMaxWid in the layout model
MaxBookmarks == 3    \* most saved bookmarks

-----------------------------------------------------------------------------
(* Values *)

None == 0

ALLOWED_PERSPECTIVES == <<"miller", "dual", "long">>

\* "bogus" stands for any string that is not an allowed perspective
PerspectiveValues == {"miller", "dual", "long", "bogus"}

InAllowed(which) == \E k \in 1..Len(ALLOWED_PERSPECTIVES) : ALLOWED_PERSPECTIVES[k] = which

\* "if which not in ALLOWED_PERSPECTIVES: which = ALLOWED_PERSPECTIVES[0]"
Fallback(which) == IF InAllowed(which) THEN which ELSE ALLOWED_PERSPECTIVES[1]

\* the configured ratio sequences: the prefixes of one sequence of positive numbers
RatioFixture == <<1, 3, 4, 2, 1>>
RatioChoices == {SubSeq(RatioFixture, 1, n) : n \in 0..MaxLen}
LayoutRatioChoices == {SubSeq(RatioFixture, 1, n) : n \in 1..LayoutMaxLen}

Ids == 1..MaxObjects

\* Python values of the fields that hold None, False, a list or a tuple
PyNone == [t |-> "None", v |-> <<>>]
PyFalse == [t |-> "False", v |-> <<>>]
PyEmptyList == [t |-> "list", v |-> <<>>]
PyTuple(s) == [t |-> "tuple", v |-> s]
Truthy(val) == val.t = "tuple" /\ Len(val.v) > 0

Max(a, b) == IF a >= b THEN a ELSE b

\* floats are modelled as exact fractions <<numerator, denominator>>
RatAdd(p, q) == <<p[1] * q[2] + q[1] * p[2], p[2] * q[2]>>
RatMul(p, q) == <<p[1] * q[1], p[2] * q[2]>>
\* int(ratio * wid)
FloorMul(r, w) == (r[1] * w) \div r[2]

RECURSIVE SeqSum(_)
SeqSum(s) == IF s = <<>> THEN 0 ELSE s[1] + SeqSum(Tail(s))

-----------------------------------------------------------------------------
(* Panel objects *)

FreeObj == [kind |-> "free", level |-> 0, y |-> 0, x |-> 0, hei |-> 0, wid |-> 0,
            visible |-> FALSE, focused |-> FALSE, destroyed |-> FALSE,
            has_preview |-> FALSE, main |-> FALSE, layout |-> "none"]

\* BrowserColumn(self.win, level); hp is what its has_preview() answers
NewColumn(level, hp) ==
    [kind |-> "column", level |-> level, y |-> 0, x |-> 0, hei |-> 0, wid |-> 0,
     visible |-> TRUE, focused |-> FALSE, destroyed |-> FALSE,
     has_preview |-> hp, main |-> FALSE, layout |-> "none"]

\* Pager(self.win, embedded=True) followed by pager.visible = False
NewPager ==
    [kind |-> "pager", level |-> 0, y |-> 0, x |-> 0, hei |-> 0, wid |-> 0,
     visible |-> FALSE, focused |-> FALSE, destroyed |-> FALSE,
     has_preview |-> FALSE, main |-> FALSE, layout |-> "none"]

\* panel.resize(y, x, hei, wid), issued by the layout algorithm alg
SetGeom(h, id, y, x, hh, ww, alg) ==
    [h EXCEPT ![id].y = y, ![id].x = x, ![id].hei = hh, ![id].wid = ww,
              ![id].layout = alg]

\* pager.destroy(): the pager has given up its window; it is not unregistered
DestroyedPager == [NewPager EXCEPT !.destroyed = TRUE]

SeqRange(s) == {s[k] : k \in 1..Len(s)}
RemoveAll(s, set) == SelectSeq(s, LAMBDA e : e \notin set)

FreeIds(h) == {i \in Ids : h[i].kind = "free"}

RECURSIVE AllocSeq(_, _)
\* the ids of n objects constructed one after the other: an object gets an id
\* that no object still referenced holds
AllocSeq(free, n) ==
    IF n = 0 THEN <<>>
    ELSE LET a == CHOOSE i \in free : \A j \in free : i <= j
         IN <<a>> \o AllocSeq(free \ {a}, n - 1)

-----------------------------------------------------------------------------
(* The view's fields as one record, threaded through the methods.          *)
(* layout records the layout algorithm the running operation dispatched,   *)
(* rebuilt whether it destroyed or constructed panel objects.              *)

\* the surface output of one operation: whether win.erase() ran and
\* need_redraw was set, the bookmark lines written (the key written on line
\* k - 1 at position k), and <<left_start, right_end>> of _draw_borders
NoDrawing == [erased |-> 0, need_redraw |-> FALSE, lines |-> <<>>, span |-> <<>>]

View ==
    [columns |-> columns, main_column |-> main_column, pager |-> pager,
     children |-> children, heap |-> heap, ratios |-> ratios,
     stretch_ratios |-> stretch_ratios, is_collapsed |-> is_collapsed,
     hei |-> hei, wid |-> wid, need_clear |-> need_clear, built |-> built,
     drawn |-> NoDrawing,
     raised |-> "none", layout |-> "none", rebuilt |-> FALSE]

-----------------------------------------------------------------------------
(* Layout *)

\* "pad = 1 if borders else 0"
Pad == IF draw_borders THEN 1 ELSE 0

\* _collapse without the test that self.columns is not empty
Collapse_withoutColumnsTest(s) ==
    IF ~collapse_preview THEN PyFalse
    ELSE IF ~preview THEN PyFalse
    ELSE IF s.columns # <<>> /\ s.heap[s.columns[Len(s.columns)]].has_preview
         THEN PyFalse
    ELSE s.stretch_ratios

\* _collapse without the test of self.preview
Collapse_withoutPreviewFlag(s) ==
    IF ~collapse_preview THEN PyFalse
    ELSE IF s.columns = <<>> THEN PyEmptyList
    ELSE IF s.heap[s.columns[Len(s.columns)]].has_preview THEN PyFalse
    ELSE s.stretch_ratios

\* _collapse(): the value of the and-chain (its first falsy operand, else the last)
Collapse(s) ==
    IF ~collapse_preview THEN PyFalse
    ELSE IF ~preview THEN PyFalse
    ELSE IF s.columns = <<>> THEN PyEmptyList
    ELSE IF s.heap[s.columns[Len(s.columns)]].has_preview THEN PyFalse
    ELSE s.stretch_ratios

RECURSIVE MillerLoop_withoutAbsorption(_, _, _, _, _)
\* the loop without "if i == last_i: wid = int(self.wid - left + 1 - pad)"
MillerLoop_withoutAbsorption(h, i, left, gen, c) ==
    IF i >= Len(gen) THEN [heap |-> h, raised |-> "none"]
    ELSE
      LET w == FloorMul(gen[i + 1], c.W)
          toPager == (i = c.last_i - 1)
      IN IF toPager /\ c.pager = None
         THEN [heap |-> h, raised |-> "AttributeError"]
         ELSE
           LET h1 == IF toPager
                     THEN SetGeom(h, c.pager, c.pad, left, c.H - c.pad * 2,
                                  Max(1, c.W - left - c.pad), "miller")
                     ELSE h
           IN IF i >= Len(c.cols)
              THEN [heap |-> h1, raised |-> "IndexError"]
              ELSE MillerLoop_withoutAbsorption(
                       SetGeom(h1, c.cols[i + 1], c.pad, left,
                               c.H - c.pad * 2, Max(1, w - 1), "miller"),
                       i + 1, left + w, gen, c)

RECURSIVE MillerLoop(_, _, _, _, _)
\* the body of "for i, ratio in generator" from index i on; gen is 1-based
MillerLoop(h, i, left, gen, c) ==
    IF i >= Len(gen) THEN [heap |-> h, raised |-> "none"]
    ELSE
      LET w == IF i = c.last_i THEN c.W - left + 1 - c.pad
               ELSE FloorMul(gen[i + 1], c.W)
          toPager == (i = c.last_i - 1)
      IN IF toPager /\ c.pager = None
         THEN [heap |-> h, raised |-> "AttributeError"]
         ELSE
           LET h1 == IF toPager
                     THEN SetGeom(h, c.pager, c.pad, left, c.H - c.pad * 2,
                                  Max(1, c.W - left - c.pad), "miller")
                     ELSE h
           IN IF i >= Len(c.cols)
              THEN [heap |-> h1, raised |-> "IndexError"]
              ELSE MillerLoop(SetGeom(h1, c.cols[i + 1], c.pad, left,
                                      c.H - c.pad * 2, Max(1, w - 1), "miller"),
                              i + 1, left + w, gen, c)

\* _resize_miller(y, x, hei, wid)
ResizeMiller(s, hparam) ==
    LET c == Collapse(s)
        s1 == [s EXCEPT !.is_collapsed = c, !.layout = "miller"]
        pad == Pad
    IN IF s.ratios.t # "tuple"
       THEN [s1 EXCEPT !.raised = "TypeError"]
       ELSE
         LET gen == IF Truthy(c) THEN c.v ELSE s.ratios.v
             ctx == [W |-> s.wid, H |-> hparam, pad |-> pad,
                     last_i |-> Len(s.ratios.v) - 1,
                     pager |-> s.pager, cols |-> s.columns]
             r == MillerLoop(s.heap, 0, pad, gen, ctx)
         IN [s1 EXCEPT !.heap = r.heap, !.raised = r.raised]

\* _resize_dual(y, x, hei, wid)
ResizeDual(s) ==
    LET halfwid == (s.wid \div 2) - 1
        s1 == [s EXCEPT !.layout = "dual"]
    IN IF Len(s.columns) < 1 THEN [s1 EXCEPT !.raised = "IndexError"]
       ELSE
         LET h1 == SetGeom(s.heap, s.columns[1], 0, 0, s.hei, halfwid, "dual")
         IN IF Len(s.columns) < 2
            THEN [s1 EXCEPT !.heap = h1, !.raised = "IndexError"]
            ELSE [s1 EXCEPT !.heap = SetGeom(h1, s.columns[2], 0, 0 + halfwid + 1,
                                             s.hei, halfwid, "dual")]

\* _resize_long(y, x, hei, wid)
ResizeLong(s) ==
    LET s1 == [s EXCEPT !.layout = "long"]
    IN IF Len(s.columns) < 1 THEN [s1 EXCEPT !.raised = "IndexError"]
       ELSE [s1 EXCEPT !.heap = SetGeom(s.heap, s.columns[1], 0, 0, s.hei, s.wid, "long")]

\* resize(y, x, hei, wid); p is settings.perspective
Resize(s, p, h, w) ==
    LET s1 == [s EXCEPT !.hei = h, !.wid = w]
        which == Fallback(p)
    IN IF which = "miller" THEN ResizeMiller(s1, h)
       ELSE IF which = "long" THEN ResizeLong(s1)
       ELSE ResizeDual(s1)

-----------------------------------------------------------------------------
(* Perspective lifecycle.  hp[k] is what has_preview() of the k-th new      *)
(* column answers; p is settings.perspective.                               *)

\* destroy_perspective without "self.pager = None"
DestroyPerspective_keepsPager(s) ==
    LET cols == SeqRange(s.columns)
        h1 == [i \in Ids |-> IF i \in cols THEN FreeObj ELSE s.heap[i]]
        h2 == IF s.pager # None THEN [h1 EXCEPT ![s.pager] = DestroyedPager] ELSE h1
    IN [s EXCEPT !.heap = h2,
                 !.children = RemoveAll(s.children, cols),
                 !.columns = <<>>,
                 !.main_column = None,
                 !.rebuilt = TRUE]

\* destroy_perspective()
DestroyPerspective(s) ==
    LET cols == SeqRange(s.columns)
        h1 == [i \in Ids |-> IF i \in cols THEN FreeObj ELSE s.heap[i]]
        h2 == IF s.pager # None THEN [h1 EXCEPT ![s.pager] = DestroyedPager] ELSE h1
    IN [s EXCEPT !.heap = h2,
                 !.children = RemoveAll(s.children, cols),
                 !.columns = <<>>,
                 !.main_column = None,
                 !.pager = None,
                 !.rebuilt = TRUE]

\* _create_perspective_dual()
CreatePerspectiveDual(s, p, hp) ==
    LET ids == AllocSeq(FreeIds(s.heap), 2)
        h1 == [s.heap EXCEPT ![ids[1]] = NewColumn(0, hp[1]),
                             ![ids[2]] = NewColumn(0, hp[2])]
        s1 == [s EXCEPT !.heap = h1,
                        !.main_column = ids[1],
                        !.children = s.children \o ids,
                        !.columns = s.columns \o ids,
                        !.rebuilt = TRUE,
                        !.built = "dual"]
    IN Resize(s1, p, s1.hei, s1.wid)

\* _create_perspective_long without the closing self.resize(...)
CreatePerspectiveLong_withoutResize(s, p, hp) ==
    LET a == AllocSeq(FreeIds(s.heap), 1)[1]
    IN [s EXCEPT !.heap = [s.heap EXCEPT ![a] = NewColumn(0, hp[1])],
                 !.main_column = a,
                 !.children = Append(s.children, a),
                 !.columns = <<a>>,
                 !.rebuilt = TRUE,
                 !.built = "long"]

\* _create_perspective_long()
CreatePerspectiveLong(s, p, hp) ==
    LET a == AllocSeq(FreeIds(s.heap), 1)[1]
        s1 == [s EXCEPT !.heap = [s.heap EXCEPT ![a] = NewColumn(0, hp[1])],
                        !.main_column = a,
                        !.children = Append(s.children, a),
                        !.columns = <<a>>,
                        !.rebuilt = TRUE,
                        !.built = "long"]
    IN Resize(s1, p, s1.hei, s1.wid)

\* "ratio_sum = float(sum(ratios)); tuple(x / ratio_sum for x in ratios)"
Normalized(configured) ==
    LET ratio_sum == SeqSum(configured)
    IN [k \in 1..Len(configured) |-> <<configured[k], ratio_sum>>]

\* the offset without "if self.preview: offset += 1"
LevelOffset_withoutPreview(n) == 1 - n

\* "offset = 1 - len(ratios); if self.preview: offset += 1"
LevelOffset(n) == (1 - n) + (IF preview THEN 1 ELSE 0)

\* _create_perspective_miller()
CreatePerspectiveMiller(s, p, hp) ==
    LET pg == AllocSeq(FreeIds(s.heap), 1)[1]
        h1 == [s.heap EXCEPT ![pg] = NewPager]
        n == Len(column_ratios)
        rs == Normalized(column_ratios)
        st == IF n >= 2
              THEN PyTuple(SubSeq(rs, 1, n - 2)
                           \o <<RatAdd(rs[n - 1], RatMul(rs[n], <<9, 10>>)),
                                RatMul(rs[n], <<1, 10>>)>>)
              ELSE s.stretch_ratios
        offset == LevelOffset(n)
        ids == AllocSeq(FreeIds(h1), n)
        h2 == [i \in Ids |->
                 IF \E k \in 1..n : ids[k] = i
                 THEN LET k == CHOOSE k \in 1..n : ids[k] = i
                      IN NewColumn((k - 1) + offset, hp[k])
                 ELSE h1[i]]
        idx == IF preview THEN n - 1 ELSE n
        mc == IF idx >= 1 THEN ids[idx] ELSE None
        h3 == IF mc # None THEN [h2 EXCEPT ![mc].main = TRUE] ELSE h2
        s1 == [s EXCEPT !.heap = h3,
                        !.pager = pg,
                        !.children = (s.children \o <<pg>>) \o ids,
                        !.ratios = PyTuple(rs),
                        !.stretch_ratios = st,
                        !.columns = ids,
                        !.main_column = mc,
                        !.rebuilt = TRUE,
                        !.built = "miller"]
    IN Resize(s1, p, s1.hei, s1.wid)

\* create_perspective(which)
CreatePerspective(s, which, p, hp) ==
    LET w == Fallback(which)
    IN IF w = "miller" THEN CreatePerspectiveMiller(s, p, hp)
       ELSE IF w = "dual" THEN CreatePerspectiveDual(s, p, hp)
       ELSE CreatePerspectiveLong(s, p, hp)

\* the number of columns a constructor makes, and of objects it allocates
NCols(which) ==
    LET w == Fallback(which)
    IN IF w = "miller" THEN Len(column_ratios) ELSE IF w = "dual" THEN 2 ELSE 1
Needed(which) == NCols(which) + (IF Fallback(which) = "miller" THEN 1 ELSE 0)
CanBuild(s, which) == Cardinality(FreeIds(DestroyPerspective(s).heap)) >= Needed(which)

\* change_perspective without the comparison of signal.previous and signal.value
ChangePerspective_uncompared(s, previous, value, p, hp) ==
    IF InAllowed(value)
    THEN CreatePerspective(DestroyPerspective(s), value, p, hp)
    ELSE [s EXCEPT !.raised = "InvalidPerspective"]

\* change_perspective(signal)
ChangePerspective(s, previous, value, p, hp) ==
    IF previous # value
    THEN IF InAllowed(value)
         THEN CreatePerspective(DestroyPerspective(s), value, p, hp)
         ELSE [s EXCEPT !.raised = "InvalidPerspective"]
    ELSE s

\* change_ratios(ratios); the argument is not used
ChangeRatios(s, p, hp) ==
    IF p = "miller"
    THEN CreatePerspective(DestroyPerspective(s), "miller", p, hp)
    ELSE s

-----------------------------------------------------------------------------
(* The settings store.  It stores the new value of an option and notifies  *)
(* the handlers bound to "setopt.<option>" with (previous, value).  The    *)
(* view binds its handler for setopt.perspective with priority 0.1, below  *)
(* the store's own setter, and its resize reads settings.perspective: the  *)
(* option holds the new value while the handler runs, and when it raises.  *)

Stored(previous, value) == value

\* the perspective the view acts under: "which" of resize()
ActivePerspective == Fallback(perspective)

-----------------------------------------------------------------------------
(* Initial state: the class attributes, then __init__ *)

ClassAttrs ==
    [columns |-> <<>>, main_column |-> None, pager |-> None,
     children |-> <<>>, heap |-> [i \in Ids |-> FreeObj], ratios |-> PyNone,
     stretch_ratios |-> PyNone, is_collapsed |-> PyFalse,
     hei |-> 0, wid |-> 0, need_clear |-> FALSE, built |-> "none",
     drawn |-> NoDrawing,
     raised |-> "none", layout |-> "none", rebuilt |-> FALSE]

EmptySnap == [vis |-> <<>>, pvis |-> FALSE, pfoc |-> FALSE]

InitWith(configured) ==
    /\ perspective \in PerspectiveValues
    /\ column_ratios \in configured
    /\ draw_borders \in BOOLEAN
    /\ collapse_preview \in BOOLEAN
    /\ preview \in BOOLEAN
    /\ draw_bookmarks = FALSE
    /\ \E hp \in [1..NCols(perspective) -> BOOLEAN] :
         \E s \in {CreatePerspective(ClassAttrs, perspective, perspective, hp)} :
            /\ columns = s.columns
            /\ main_column = s.main_column
            /\ pager = s.pager
            /\ children = s.children
            /\ heap = s.heap
            /\ ratios = s.ratios
            /\ stretch_ratios = s.stretch_ratios
            /\ is_collapsed = s.is_collapsed
            /\ hei = s.hei
            /\ wid = s.wid
            /\ need_clear = s.need_clear
            /\ drawn = s.drawn
            /\ raised = s.raised
            /\ built = s.built
            /\ snap = EmptySnap
            /\ lastOp = [name |-> "init", layout |-> s.layout, rebuilt |-> s.rebuilt]

\* no bookmarks are saved
NoBookmarks == bookmarks = {} /\ show_hidden_bookmarks = FALSE

Init == InitWith(RatioChoices) /\ NoBookmarks

\* the fields of the view after an operation that ends in the record result
Commit(result, name) ==
  \E s \in {result} :
    /\ columns' = s.columns
    /\ main_column' = s.main_column
    /\ pager' = s.pager
    /\ children' = s.children
    /\ heap' = s.heap
    /\ ratios' = s.ratios
    /\ stretch_ratios' = s.stretch_ratios
    /\ is_collapsed' = s.is_collapsed
    /\ hei' = s.hei
    /\ wid' = s.wid
    /\ need_clear' = s.need_clear
    /\ drawn' = s.drawn
    /\ raised' = s.raised
    /\ built' = s.built
    /\ lastOp' = [name |-> name, layout |-> s.layout, rebuilt |-> s.rebuilt]

-----------------------------------------------------------------------------
(* Operations *)

\* the viewport at construction, and a terminal of MaxHei x MaxWid cells
ViewportSizes == {<<0, 0>>, <<MaxHei, MaxWid>>}

\* settings.perspective = value: the store, then change_perspective(signal)
SetPerspective(value) ==
    /\ CanBuild(View, value)
    /\ perspective' = Stored(perspective, value)
    /\ \E hp \in [1..NCols(value) -> BOOLEAN] :
         Commit(ChangePerspective(View, perspective, value, perspective', hp),
                "change_perspective")
    /\ snap' = EmptySnap
    /\ UNCHANGED <<column_ratios, draw_borders, collapse_preview,
                   show_hidden_bookmarks, envVars>>

\* request_clear()
RequestClear(s) == [s EXCEPT !.need_clear = TRUE]

\* settings.column_ratios = r: the store, then the bound handler request_clear
SetColumnRatios(r) ==
    /\ r # column_ratios
    /\ column_ratios' = Stored(column_ratios, r)
    /\ Commit(RequestClear(View), "setopt.column_ratios")
    /\ snap' = EmptySnap
    /\ UNCHANGED <<perspective, draw_borders, collapse_preview,
                   show_hidden_bookmarks, envVars>>

\* a call of change_ratios(ratios)
CallChangeRatios ==
    /\ CanBuild(View, "miller")
    /\ \E hp \in [1..NCols("miller") -> BOOLEAN] :
         Commit(ChangeRatios(View, perspective, hp), "change_ratios")
    /\ snap' = EmptySnap
    /\ UNCHANGED <<settingsVars, envVars>>

\* a call of resize(y, x, hei, wid)
CallResize(h, w) ==
    /\ Commit(Resize(View, perspective, h, w), "resize")
    /\ snap' = EmptySnap
    /\ UNCHANGED <<settingsVars, envVars>>

\* poke()
Poke(s, p) ==
    IF preview /\ s.is_collapsed # Collapse(s)
    THEN Resize(s, p, s.hei, s.wid)
    ELSE s

CallPoke ==
    /\ Commit(Poke(View, perspective), "poke")
    /\ snap' = EmptySnap
    /\ UNCHANGED <<settingsVars, envVars>>

\* columns[-k].visible = val, IndexError when there is no such column
RECURSIVE SetLastVisible(_, _, _, _)
SetLastVisible(h, cols, k, val) ==
    IF k = 0 THEN h
    ELSE IF Len(cols) = 0 THEN h
    ELSE SetLastVisible([h EXCEPT ![cols[Len(cols)]].visible = val],
                        SubSeq(cols, 1, Len(cols) - 1), k - 1, val)

\* open_pager()
OpenPager(s) ==
    IF s.pager = None THEN [s EXCEPT !.raised = "AttributeError"]
    ELSE LET h1 == [s.heap EXCEPT ![s.pager].visible = TRUE,
                                  ![s.pager].focused = TRUE]
         IN [s EXCEPT !.heap = SetLastVisible(h1, s.columns, 2, FALSE),
                      !.need_clear = TRUE]

\* close_pager()
ClosePager(s) ==
    IF s.pager = None THEN [s EXCEPT !.raised = "AttributeError"]
    ELSE LET h1 == [s.heap EXCEPT ![s.pager].visible = FALSE,
                                  ![s.pager].focused = FALSE]
         IN [s EXCEPT !.heap = SetLastVisible(h1, s.columns, 2, TRUE),
                      !.need_clear = TRUE]

\* the visible flags of the panels and the visible / focused flags of the pager
Visibility(s) ==
    [vis |-> [k \in 1..Len(s.columns) |-> s.heap[s.columns[k]].visible],
     pvis |-> IF s.pager = None THEN FALSE ELSE s.heap[s.pager].visible,
     pfoc |-> IF s.pager = None THEN FALSE ELSE s.heap[s.pager].focused]

CallOpenPager ==
    /\ Commit(OpenPager(View), "open_pager")
    /\ snap' = Visibility(View)
    /\ UNCHANGED <<settingsVars, envVars>>

CallClosePager ==
    /\ Commit(ClosePager(View), "close_pager")
    /\ snap' = EmptySnap
    /\ UNCHANGED <<settingsVars, envVars>>

\* click(event): handled is the answer of DisplayableContainer.click,
\* direction the answer of event.mouse_wheel_direction()
Click(s, handled, direction) ==
    IF handled THEN s
    ELSE IF direction # 0 /\ s.main_column = None
         THEN [s EXCEPT !.raised = "AttributeError"]
         ELSE s

CallClick(handled, direction) ==
    /\ Commit(Click(View, handled, direction), "click")
    /\ snap' = EmptySnap
    /\ UNCHANGED <<settingsVars, envVars>>

\* finalize(): every failure of the cursor placement is swallowed
Finalize(s) == s

CallFinalize ==
    /\ Commit(Finalize(View), "finalize")
    /\ snap' = EmptySnap
    /\ UNCHANGED <<settingsVars, envVars>>

\* "'/.' in item[1].path"; a path is a sequence of characters
HasHiddenMarker(path) ==
    \E k \in 1..(Len(path) - 1) : path[k] = "/" /\ path[k + 1] = "."

RECURSIVE Sorted(_)
\* sorted(items): the items are (key, bookmark) pairs with distinct keys
Sorted(items) ==
    IF items = {} THEN <<>>
    ELSE LET first == CHOOSE i \in items : \A j \in items : i.key <= j.key
         IN <<first>> \o Sorted(items \ {first})

\* range(n)
Range(n) == [k \in 1..Max(0, n) |-> k - 1]

\* zip(a, b)
Zip(a, b) ==
    [k \in 1..(IF Len(a) <= Len(b) THEN Len(a) ELSE Len(b)) |->
        [line |-> a[k], item |-> b[k]]]

\* _draw_bookmarks without the filter on hidden paths
DrawBookmarks_unfiltered(s) ==
    LET sorted_bookmarks == Sorted(bookmarks)
        generator == Zip(Range(s.hei - 1), sorted_bookmarks)
        s1 == [s EXCEPT !.need_clear = TRUE]
    IN IF generator = <<>> THEN s1
       ELSE [s1 EXCEPT !.drawn.lines = generator]

\* _draw_bookmarks(); the box of lines 201-206 is surface output below and
\* beside the lines written here
DrawBookmarks(s) ==
    LET sorted_bookmarks ==
            Sorted({item \in bookmarks :
                      show_hidden_bookmarks \/ ~HasHiddenMarker(item.path)})
        generator == Zip(Range(s.hei - 1), sorted_bookmarks)
        s1 == [s EXCEPT !.need_clear = TRUE]
    IN IF generator = <<>> THEN s1
       ELSE [s1 EXCEPT !.drawn.lines = generator]

\* "self.pager and self.pager.visible"
PagerVisible(s) == s.pager # None /\ s.heap[s.pager].visible

RECURSIVE ScanLeft(_, _, _, _)
\* "for child in self.columns" of lines 215-219, from the k-th column on
ScanLeft(h, cols, k, left_start) ==
    IF k > Len(cols) THEN left_start
    ELSE IF ~h[cols[k]].has_preview
         THEN ScanLeft(h, cols, k + 1, h[cols[k]].x + h[cols[k]].wid)
         ELSE left_start

RECURSIVE ScanRight_withoutBreak(_, _, _, _)
\* the scan from the right without "else: break"
ScanRight_withoutBreak(h, cols, k, right_end) ==
    IF k < 1 THEN right_end
    ELSE ScanRight_withoutBreak(h, cols, k - 1,
                                IF ~h[cols[k]].has_preview
                                THEN h[cols[k]].x - 1
                                ELSE right_end)

RECURSIVE ScanRight(_, _, _, _)
\* "for child in reversed(self.columns)" of lines 221-225, from the k-th column down
ScanRight(h, cols, k, right_end) ==
    IF k < 1 THEN right_end
    ELSE IF ~h[cols[k]].has_preview
         THEN ScanRight(h, cols, k - 1, h[cols[k]].x - 1)
         ELSE right_end

\* left_start and right_end of _draw_borders()
BorderSpan(s) ==
    LET left_start == ScanLeft(s.heap, s.columns, 1, 0)
        right_end ==
            IF ~PagerVisible(s)
            THEN LET r == ScanRight(s.heap, s.columns, Len(s.columns), s.wid - 1)
                 IN IF r < left_start THEN s.wid - 1 ELSE r
            ELSE s.wid - 1
    IN <<left_start, right_end>>

\* _draw_borders(): the rules and corners are drawn at left_start and right_end
DrawBorders(s) == [s EXCEPT !.drawn.span = BorderSpan(s)]

\* draw() without "self.need_clear = False"
Draw_withoutConsume(s) ==
    IF draw_bookmarks THEN DrawBookmarks(s)
    ELSE LET s1 == IF s.need_clear
                   THEN [s EXCEPT !.drawn.erased = 1,
                                  !.drawn.need_redraw = TRUE]
                   ELSE s
         IN IF draw_borders THEN DrawBorders(s1) ELSE s1

\* draw()
Draw(s) ==
    IF draw_bookmarks THEN DrawBookmarks(s)
    ELSE LET s1 == IF s.need_clear
                   THEN [s EXCEPT !.drawn.erased = 1,
                                  !.drawn.need_redraw = TRUE,
                                  !.need_clear = FALSE]
                   ELSE s
         IN IF draw_borders THEN DrawBorders(s1) ELSE s1

CallDraw ==
    /\ Commit(Draw(View), "draw")
    /\ snap' = EmptySnap
    /\ UNCHANGED <<settingsVars, envVars>>

\* the 'move' signal of the environment, bound to request_clear
CallMove ==
    /\ Commit(RequestClear(View), "move")
    /\ snap' = EmptySnap
    /\ UNCHANGED <<settingsVars, envVars>>

\* _request_clear_if_has_borders()
RequestClearIfHasBorders(s) == IF draw_borders THEN RequestClear(s) ELSE s

\* preview_directories or preview_files is set: the bound handler
SetPreviewOption ==
    /\ Commit(RequestClearIfHasBorders(View), "setopt.preview")
    /\ snap' = EmptySnap
    /\ UNCHANGED <<settingsVars, envVars>>

\* the user interface turns the bookmark overlay on or off
SetDrawBookmarks ==
    /\ draw_bookmarks' = ~draw_bookmarks
    /\ Commit(View, "draw_bookmarks")
    /\ snap' = EmptySnap
    /\ UNCHANGED <<settingsVars, preview, bookmarks>>

\* the environment: the k-th column's target changes, and with it has_preview()
TargetChanged(k) ==
    /\ k \in 1..Len(columns)
    /\ Commit([View EXCEPT !.heap[columns[k]].has_preview = ~heap[columns[k]].has_preview],
              "target")
    /\ snap' = EmptySnap
    /\ UNCHANGED <<settingsVars, envVars>>

\* the operations of the view outside the bookmark overlay mode; the overlay
\* is part of NextDraw
Next ==
    \/ \E value \in PerspectiveValues : SetPerspective(value)
    \/ \E r \in RatioChoices : SetColumnRatios(r)
    \/ CallChangeRatios
    \/ \E size \in ViewportSizes : CallResize(size[1], size[2])
    \/ CallPoke
    \/ CallOpenPager
    \/ CallClosePager
    \/ \E handled \in BOOLEAN, direction \in {-1, 0, 1} : CallClick(handled, direction)
    \/ CallFinalize
    \/ CallDraw
    \/ CallMove
    \/ SetPreviewOption
    \/ \E k \in 1..MaxLen : TargetChanged(k)

Spec == Init /\ [][Next]_vars

\* the perspective lifecycle: option changes, rebuilds, resizes, draws
NextLifecycle ==
    \/ \E value \in PerspectiveValues : SetPerspective(value)
    \/ \E r \in RatioChoices : SetColumnRatios(r)
    \/ CallChangeRatios
    \/ \E size \in ViewportSizes : CallResize(size[1], size[2])
    \/ CallDraw

SpecLifecycle == Init /\ [][NextLifecycle]_vars

\* the pager toggle under perspective switches
NextPager ==
    \/ \E value \in PerspectiveValues : SetPerspective(value)
    \/ CallOpenPager
    \/ CallClosePager

SpecPager == Init /\ [][NextPager]_vars

\* the layout of one panel set over every width 0..LayoutMaxWid
NextLayout ==
    \/ \E w \in 0..LayoutMaxWid : CallResize(MaxHei, w)
    \/ \E k \in 1..LayoutMaxLen : TargetChanged(k)
    \/ CallPoke

\* the initial states of the layout model: one to LayoutMaxLen ratios
InitLayout == InitWith(LayoutRatioChoices) /\ NoBookmarks

SpecLayout == InitLayout /\ [][NextLayout]_vars

\* the border computation over a Miller panel set, the pager open or closed
NextBorders ==
    \/ \E size \in ViewportSizes : CallResize(size[1], size[2])
    \/ \E k \in 1..LayoutMaxLen : TargetChanged(k)
    \/ CallOpenPager
    \/ CallClosePager
    \/ CallDraw

SpecBorders == InitLayout /\ [][NextBorders]_vars

\* the saved bookmarks: (key, path) items with distinct keys
BookmarkFixture ==
    {[key |-> 1, path |-> <<"/", "x">>],
     [key |-> 2, path |-> <<"/", ".", "h", "/", "y">>],
     [key |-> 3, path |-> <<"/", "x", ".", "y">>],
     [key |-> 4, path |-> <<"/", "x", "/", ".", "z">>],
     [key |-> 5, path |-> <<"/", "y">>]}
BookmarkChoices == {{b \in BookmarkFixture : b.key <= n} : n \in 0..MaxBookmarks}

\* the draw passes, the bookmark overlay and the triggers of a clear
NextDraw ==
    \/ SetDrawBookmarks
    \/ CallDraw
    \/ CallMove
    \/ SetPreviewOption
    \/ \E r \in RatioChoices : SetColumnRatios(r)
    \/ CallOpenPager
    \/ CallClosePager
    \/ \E size \in ViewportSizes : CallResize(size[1], size[2])

\* the initial states of the drawing model: some bookmarks are saved
InitDraw ==
    /\ InitWith(RatioChoices)
    /\ bookmarks \in BookmarkChoices
    /\ show_hidden_bookmarks \in BOOLEAN

SpecDraw == InitDraw /\ [][NextDraw]_vars

-----------------------------------------------------------------------------
(* Properties *)

\* the panel set, its geometry and the flags of the view
viewVars == <<columns, main_column, pager, children, heap, hei, wid, ratios,
              stretch_ratios, is_collapsed, need_clear>>

\* C1: a perspective-changed notification whose previous value equals its
\* requested value changes nothing: the panel set (the same objects in the
\* same order), the main column, the pager and all geometry stay as they
\* are, nothing is destroyed or constructed, nothing is raised.
C1_SameValueIsNoOp ==
    [][(lastOp'.name = "change_perspective" /\ perspective' = perspective)
         => /\ UNCHANGED viewVars
            /\ ~lastOp'.rebuilt
            /\ lastOp'.layout = "none"
            /\ raised' = "none"]_vars

\* a notification with previous = value was handled over the two dual panels
C1_Witness ==
    /\ lastOp.name = "change_perspective"
    /\ ~lastOp.rebuilt
    /\ raised = "none"
    /\ perspective = "dual"
    /\ Len(columns) = 2

\* C2: a perspective-changed notification whose requested value is not an
\* allowed perspective raises InvalidPerspective and leaves the panel set,
\* the main column, the pager and the active perspective as they were.
C2_RejectedSwitchKeepsState ==
    [][(lastOp'.name = "change_perspective" /\ perspective' # perspective
          /\ ~InAllowed(perspective'))
         => /\ raised' = "InvalidPerspective"
            /\ UNCHANGED <<columns, main_column, pager, heap>>
            /\ ActivePerspective' = ActivePerspective]_vars

-----------------------------------------------------------------------------
(* Miller layout *)

ColX(k) == heap[columns[k]].x
ColWid(k) == heap[columns[k]].wid

\* the last operation laid a Miller panel set out with the Miller algorithm
AfterMillerResize == lastOp.layout = "miller" /\ built = "miller"

\* the columns tile the viewport: the first starts at pad, each next one
\* separator cell after its left neighbour's right edge, the last ends at
\* viewport_width - pad
Tiled ==
    /\ ColX(1) = Pad
    /\ \A k \in 1..(Len(columns) - 1) : ColX(k + 1) = ColX(k) + ColWid(k) + 1
    /\ ColX(Len(columns)) + ColWid(Len(columns)) = wid - Pad

\* the ratio set the last Miller resize walked: stretch when collapsed
UsedRatios == IF Truthy(is_collapsed) THEN stretch_ratios.v ELSE ratios.v

\* what the walk allots to column k: floor(ratio * viewport_width), and to
\* the last column what is left of the viewport
RECURSIVE LeftOf(_)
Allotted(k) ==
    IF k = Len(ratios.v) THEN wid - LeftOf(k) + 1 - Pad
    ELSE FloorMul(UsedRatios[k], wid)
LeftOf(k) == IF k = 1 THEN Pad ELSE LeftOf(k - 1) + Allotted(k - 1)

\* C3 (as stated): for every viewport width, border setting and Miller ratio
\* set with at least one ratio, after a Miller resize the columns tile the
\* viewport exactly.  Refuted: a column allotted fewer than 2 cells is still
\* given max(1, allotted - 1) = 1 cell, so the walk overruns the viewport.
C3_Original_TilesEveryWidth ==
    (AfterMillerResize /\ Len(columns) >= 1) => Tiled

\* C3 (amended): for every viewport width, border setting and Miller ratio
\* set (normal or stretch) with at least one ratio, after a Miller resize in
\* which every column is allotted at least 2 cells (its own cell and the
\* separator), the columns tile the viewport exactly: the first starts at
\* col = pad, each next one at col + width + 1 of the previous, and the
\* last column's right edge is viewport_width - pad.
C3_TilesWhenEveryColumnHasRoom ==
    (AfterMillerResize /\ Len(columns) >= 1
        /\ \A k \in 1..Len(columns) : Allotted(k) >= 2)
      => Tiled

\* a resize with borders tiled two or more columns, the stretch set in use
C3_Witness ==
    /\ AfterMillerResize
    /\ lastOp.name = "resize"
    /\ Len(columns) >= 2
    /\ draw_borders
    /\ Truthy(is_collapsed)
    /\ \A k \in 1..Len(columns) : Allotted(k) >= 2
    /\ Tiled

\* C4: the collapse flag a Miller resize computes is true exactly when
\* collapse_preview is set, preview is enabled, the panel set is not empty,
\* the rightmost column reports no preview and a stretch ratio set exists;
\* and the resize gives every column but the last the width of its stretch
\* ratio when the flag is true, of its normal ratio otherwise.
C4_CollapseFlagAndRatios ==
    lastOp.layout = "miller" =>
      /\ Truthy(is_collapsed)
           <=> (/\ collapse_preview
                /\ preview
                /\ columns # <<>>
                /\ ~heap[columns[Len(columns)]].has_preview
                /\ stretch_ratios.t = "tuple")
      /\ (built = "miller" /\ raised = "none") =>
           \A k \in 1..(Len(columns) - 1) :
              ColWid(k) = Max(1, FloorMul((IF Truthy(is_collapsed)
                                           THEN stretch_ratios.v
                                           ELSE ratios.v)[k], wid) - 1)

\* a poke found the rightmost column without a preview and collapsed the view
C4_Witness ==
    /\ lastOp.layout = "miller"
    /\ lastOp.name = "poke"
    /\ Truthy(is_collapsed)
    /\ Len(columns) = 3
    /\ wid = LayoutMaxWid

-----------------------------------------------------------------------------
(* Pager toggle *)

CurrentVisibility == Visibility(View)

\* C5: open_pager hides exactly the last two panels of the panel set (the
\* only panel if there is one, none if the set is empty) and marks the pager
\* visible and focused; a close_pager that follows marks the pager not
\* visible and not focused and gives every panel the visibility it had
\* before open_pager.
C5_OpenCloseRoundTrip ==
    [][/\ lastOp'.name = "open_pager" =>
            /\ pager' # None
            /\ heap'[pager'].visible /\ heap'[pager'].focused
            /\ \A k \in 1..Len(columns) :
                 heap'[columns[k]].visible =
                    (IF k > Len(columns) - 2 THEN FALSE ELSE heap[columns[k]].visible)
       /\ (lastOp.name = "open_pager" /\ lastOp'.name = "close_pager") =>
            /\ pager' # None
            /\ ~heap'[pager'].visible /\ ~heap'[pager'].focused
            /\ CurrentVisibility' = snap]_vars

-----------------------------------------------------------------------------
(* Perspective lifecycle *)

C7_GeometryBeforeDraw ==
    /\ \A k \in 1..Len(columns) : heap[columns[k]].layout # "none"
    /\ lastOp.rebuilt =>
          /\ columns # <<>> => lastOp.layout = built
          /\ \A k \in 1..Len(columns) :
                /\ heap[columns[k]].layout = built
                /\ heap[columns[k]].hei = (IF built = "miller" THEN hei - Pad * 2 ELSE hei)
                /\ built = "long" => heap[columns[k]].wid = wid
                /\ built = "dual" => heap[columns[k]].wid = (wid \div 2) - 1

\* a switch to long built the single panel and gave it the whole viewport
C7_Witness ==
    /\ lastOp.name = "change_perspective"
    /\ lastOp.rebuilt
    /\ built = "long"
    /\ hei = MaxHei
    /\ heap[columns[1]].wid = MaxWid

\* C8: when the column_ratios option changes while the active perspective
\* is Miller, the notification rebuilds the perspective: one panel per newly
\* configured ratio, laid out with the new normalized ratios; in Dual and
\* Long the panel set is not rebuilt.
C8_RatioChangeRebuildsMiller ==
    lastOp.name = "setopt.column_ratios" =>
       /\ perspective = "miller" =>
             /\ lastOp.rebuilt
             /\ Len(columns) = Len(column_ratios)
             /\ ratios = PyTuple(Normalized(column_ratios))
       /\ perspective \in {"dual", "long"} => ~lastOp.rebuilt

\* C9: no operation lets an error escape, other than InvalidPerspective
\* from a switch to an unrecognized perspective.
C9_OnlyInvalidPerspectiveEscapes ==
    raised # "none" =>
       /\ raised = "InvalidPerspective"
       /\ lastOp.name = "change_perspective"
       /\ ~InAllowed(perspective)

\* C10 (as stated): a view constructed with preview disabled never has a
\* pager, and a pager exists only in the Miller perspective with preview
\* enabled.  Refuted: _create_perspective_miller creates the pager without
\* reading the flag.
C10_Original_PreviewDecidesPager ==
    /\ ~preview => pager = None
    /\ pager # None => (ActivePerspective = "miller" /\ preview)

\* C10 (amended): the preview flag of the constructor does not decide
\* whether a pager is created.  In every state reachable by perspective
\* switches and ratio changes a live pager exists exactly when the panel
\* set was built by the Miller constructor, with preview enabled or
\* disabled; the Dual and Long panel sets have no pager.
C10_PagerExactlyInMiller ==
    /\ (pager # None) <=> (built = "miller")
    /\ pager # None => (heap[pager].kind = "pager" /\ ~heap[pager].destroyed)

\* a switch built the Miller perspective, with its pager, for a view
\* constructed with preview disabled
C10_Witness ==
    /\ lastOp.name = "change_perspective"
    /\ lastOp.rebuilt
    /\ ~preview
    /\ built = "miller"
    /\ pager # None

-----------------------------------------------------------------------------
(* Borders *)

HasPreview(k) == heap[columns[k]].has_preview

\* the last operation was a draw pass that drew the borders
AfterBorders == lastOp.name = "draw" /\ drawn.span # <<>>

\* the length of the maximal leading, and trailing, run of panels that
\* report no preview
LeadingRun ==
    Cardinality({j \in 1..Len(columns) : \A k \in 1..j : ~HasPreview(k)})
TrailingRun ==
    Cardinality({j \in 1..Len(columns) : \A k \in j..Len(columns) : ~HasPreview(k)})

\* left_start and right_end as the runs determine them
RunLeftStart ==
    IF LeadingRun = 0 THEN 0 ELSE ColX(LeadingRun) + ColWid(LeadingRun)
RunRightEnd ==
    LET first == Len(columns) + 1 - TrailingRun
        scan == IF TrailingRun = 0 THEN wid - 1 ELSE ColX(first) - 1
    IN IF PagerVisible(View) THEN wid - 1
       ELSE IF scan < RunLeftStart THEN wid - 1
       ELSE scan

BordersFollowRuns == AfterBorders => drawn.span = <<RunLeftStart, RunRightEnd>>

\* the panel set is [no-preview, has-preview, no-preview], the pager hidden
NoHasNo ==
    /\ Len(columns) = 3
    /\ ~HasPreview(1) /\ HasPreview(2) /\ ~HasPreview(3)
    /\ ~PagerVisible(View)

\* C11 (as stated): left_start and right_end are determined by the leading
\* and the trailing run of no-preview panels, with the reset of right_end
\* and the visible pager as described, and for [no-preview, has-preview,
\* no-preview] left_start is the right edge of column 0 and right_end the
\* left edge of column 2 minus 1.  Refuted in its last part: in a viewport
\* too narrow for the columns the left edge of column 2 minus 1 is below
\* left_start and right_end is reset.
C11_Original_BorderSpan ==
    /\ BordersFollowRuns
    /\ (AfterBorders /\ NoHasNo) =>
          drawn.span = <<ColX(1) + ColWid(1), ColX(3) - 1>>

\* C11 (amended): left_start and right_end are determined by the leading
\* and the trailing run of no-preview panels, with the reset of right_end
\* to viewport_width - 1 when the scan gives right_end < left_start and
\* with right_end = viewport_width - 1 under a visible pager; for
\* [no-preview, has-preview, no-preview] left_start is the right edge of
\* column 0, and right_end is the left edge of column 2 minus 1 when that is
\* not below left_start, viewport_width - 1 otherwise.
C11_BorderSpan ==
    /\ BordersFollowRuns
    /\ (AfterBorders /\ NoHasNo) =>
          /\ drawn.span[1] = ColX(1) + ColWid(1)
          /\ drawn.span[2] = (IF ColX(3) - 1 >= ColX(1) + ColWid(1)
                              THEN ColX(3) - 1 ELSE wid - 1)

\* the borders were drawn around [no-preview, has-preview, no-preview] in a
\* viewport of MaxWid cells
C11_Witness ==
    /\ AfterBorders
    /\ NoHasNo
    /\ wid = MaxWid
    /\ drawn.span = <<ColX(1) + ColWid(1), ColX(3) - 1>>

-----------------------------------------------------------------------------
(* Bookmark overlay *)

\* the last operation was a draw pass in the bookmark overlay mode
AfterOverlay == lastOp.name = "draw" /\ draw_bookmarks

\* the bookmarks left by the filter
Listed == {b \in bookmarks : show_hidden_bookmarks \/ ~HasHiddenMarker(b.path)}

\* the k-th listed bookmark in key order: k - 1 listed keys are smaller
KthListed(k) ==
    CHOOSE b \in Listed : Cardinality({c \in Listed : c.key < b.key}) = k - 1

\* C12: the bookmark overlay renders exactly the first min(n, viewport
\* height - 1) entries of the key-sorted bookmark collection after the
\* filter, one per line from line 0 on; the filter removes every entry whose
\* path contains "/." unless show_hidden_bookmarks is set; when that
\* sequence is empty nothing is drawn and nothing is raised.
C12_OverlayLines ==
    AfterOverlay =>
       LET n == Cardinality(Listed)
           count == IF n <= hei - 1 THEN n ELSE hei - 1
       IN /\ raised = "none"
          /\ drawn.erased = 0
          /\ Len(drawn.lines) = Max(0, count)
          /\ \A k \in 1..count :
                drawn.lines[k] = [line |-> k - 1, item |-> KthListed(k)]

\* of MaxBookmarks saved bookmarks the overlay listed, in a viewport of
\* MaxHei lines, those the filter left, the one with the largest key last
C12_Witness ==
    /\ AfterOverlay
    /\ hei = MaxHei
    /\ Cardinality(bookmarks) = MaxBookmarks
    /\ Cardinality(Listed) < Cardinality(bookmarks)
    /\ Len(drawn.lines) = Cardinality(Listed)
    /\ drawn.lines[Len(drawn.lines)].item.key = MaxBookmarks

-----------------------------------------------------------------------------
(* Batched clears *)

\* the notifications and calls that request a clear
ClearTriggers ==
    {"move", "setopt.column_ratios", "setopt.preview", "open_pager", "close_pager"}

\* a trigger erases nothing and leaves need_clear set; it sets need_clear
\* when it completes (the preview options: when borders are drawn)
TriggersOnlySetFlag ==
    lastOp'.name \in ClearTriggers =>
       /\ drawn'.erased = 0
       /\ need_clear => need_clear'
       /\ (raised' = "none" /\ (lastOp'.name = "setopt.preview" => draw_borders))
             => need_clear'

\* C20 (as stated): triggers between two draw passes only set need_clear;
\* the next draw pass consumes it: it erases the surface once, sets
\* need_redraw and leaves need_clear false; a draw pass with need_clear
\* false erases nothing.  Refuted: a draw pass in the bookmark overlay mode
\* erases nothing and sets need_clear.
C20_Original_EveryDrawConsumes ==
    [][/\ TriggersOnlySetFlag
       /\ lastOp'.name = "draw" =>
            IF need_clear
            THEN drawn'.erased = 1 /\ drawn'.need_redraw /\ ~need_clear'
            ELSE drawn'.erased = 0]_vars

\* C20 (amended): triggers between two draw passes only set need_clear; the
\* next draw pass outside the bookmark overlay mode consumes it: it erases
\* the surface once, sets need_redraw and leaves need_clear false, and with
\* need_clear false it erases nothing; a draw pass in the bookmark overlay
\* mode erases nothing and leaves need_clear set.
C20_NormalDrawConsumes ==
    [][/\ TriggersOnlySetFlag
       /\ (lastOp'.name = "draw" /\ ~draw_bookmarks) =>
            IF need_clear
            THEN drawn'.erased = 1 /\ drawn'.need_redraw /\ ~need_clear'
            ELSE drawn'.erased = 0 /\ ~drawn'.need_redraw /\ ~need_clear'
       /\ (lastOp'.name = "draw" /\ draw_bookmarks) =>
            drawn'.erased = 0 /\ need_clear']_vars

\* a draw pass outside the overlay mode consumed a requested clear
C20_Witness ==
    /\ lastOp.name = "draw"
    /\ ~draw_bookmarks
    /\ drawn.erased = 1
    /\ drawn.need_redraw
    /\ ~need_clear

-----------------------------------------------------------------------------
(* Panel set invariants *)

\* the pager of the current panel set, as a set
CurrentPager == IF pager = None THEN {} ELSE {pager}

\* C13: after any sequence of perspective switches and Miller rebuilds the
\* container's registered children are exactly the panels of the current
\* panel set and the current pager, and no destroyed panel or pager is
\* registered.
C13_ChildrenAreCurrentPanels ==
    /\ SeqRange(children) = SeqRange(columns) \cup CurrentPager
    /\ \A k \in 1..Len(children) : ~heap[children[k]].destroyed

\* the stretch variant of a ratio set r with at least two ratios
StretchOf(r) ==
    LET n == Len(r)
    IN SubSeq(r, 1, n - 2)
         \o <<RatAdd(r[n - 1], RatMul(r[n], <<9, 10>>)), RatMul(r[n], <<1, 10>>)>>

\* C14: in every state reachable by ratio changes and perspective switches,
\* if stretch_ratios is set then the current ratio set has at least two
\* ratios, stretch_ratios has its length and equals it with the last two
\* entries replaced by (r[-2] + 0.9 * r[-1], 0.1 * r[-1]).
C14_StretchMatchesRatios ==
    stretch_ratios.t = "tuple" =>
       /\ Len(ratios.v) >= 2
       /\ Len(stretch_ratios.v) = Len(ratios.v)
       /\ stretch_ratios.v = StretchOf(ratios.v)

\* C15: every resize lays the panel set out with the algorithm of the
\* perspective the panel set was built for, also after a rejected switch.
C15_LayoutOfBuiltPerspective ==
    lastOp.layout # "none" => lastOp.layout = built

\* the panels and the pager that a layout algorithm has given a geometry
LaidOut ==
    {i \in SeqRange(columns) \cup CurrentPager : heap[i].layout # "none"}

\* C16: every geometry a layout algorithm assigns to a panel or to the pager
\* has non-negative row, col, height and width, for every viewport size and
\* border setting.
C16_GeometryNonNegative ==
    \A i \in LaidOut :
       heap[i].y >= 0 /\ heap[i].x >= 0 /\ heap[i].hei >= 0 /\ heap[i].wid >= 0

\* C17: in a Miller panel set with at least one column the main column is
\* the second-to-last panel when preview is enabled, the last otherwise,
\* and the only panel flagged as main column; in Dual it is the first of
\* the two panels, in Long the single panel; the main-column reference is
\* null only when the panel set is empty.
C17_MainColumn ==
    /\ (built = "miller" /\ columns # <<>>) =>
          LET idx == IF preview THEN Len(columns) - 1 ELSE Len(columns)
          IN /\ idx >= 1
             /\ main_column = columns[idx]
             /\ \A k \in 1..Len(columns) : heap[columns[k]].main <=> (k = idx)
    /\ built \in {"dual", "long"} => (columns # <<>> /\ main_column = columns[1])
    /\ main_column = None => columns = <<>>

\* the levels of the panels, left to right
Levels == [k \in 1..Len(columns) |-> heap[columns[k]].level]

\* C18 (as stated): in a Miller panel set built from count ratios the
\* levels are consecutive from 1 - count (preview disabled) or 2 - count
\* (preview enabled) and the highest level is 0.  Refuted: with preview
\* enabled the levels run from 2 - count up through 1.
C18_Original_LevelsUpToZero ==
    (built = "miller" /\ columns # <<>>) =>
       /\ Levels[1] = (IF preview THEN 2 ELSE 1) - Len(columns)
       /\ \A k \in 1..(Len(columns) - 1) : Levels[k + 1] = Levels[k] + 1
       /\ Levels[Len(columns)] = 0

\* C18 (amended): in a Miller panel set built from count ratios the levels
\* are consecutive, left to right, from 1 - count up through 0 when preview
\* is disabled and from 2 - count up through 1 when preview is enabled.
C18_ConsecutiveLevels ==
    (built = "miller" /\ columns # <<>>) =>
       /\ Levels[1] = (IF preview THEN 2 ELSE 1) - Len(columns)
       /\ \A k \in 1..(Len(columns) - 1) : Levels[k + 1] = Levels[k] + 1
       /\ Levels[Len(columns)] = (IF preview THEN 1 ELSE 0)

\* a switch built a Miller panel set of MaxLen columns with preview enabled
C18_Witness ==
    /\ lastOp.name = "change_perspective"
    /\ lastOp.rebuilt
    /\ built = "miller"
    /\ preview
    /\ Len(columns) = MaxLen
    /\ Levels[MaxLen] = 1

\* C19: after any sequence of perspective switches and ratio changes the
\* panel set has 2 panels in Dual, 1 in Long and one per configured ratio
\* in Miller.
C19_PanelCount ==
    /\ built = "dual" => Len(columns) = 2
    /\ built = "long" => Len(columns) = 1
    /\ built = "miller" => Len(columns) = Len(column_ratios)

====
